---- MODULE Spec2Model ----
(***************************************************************************)
(* Model of the URL-classification-and-aggregation pipeline of app.py:     *)
(* the /analyze handler, YouTubeAnalyzer's extraction, resolution,         *)
(* aggregation and metrics methods, and the remote API seen as a source of *)
(* nondeterministic outcomes.  Python strings are sequences of one-        *)
(* character strings; None is the option value with some = FALSE.          *)
(***************************************************************************)
EXTENDS Integers, Sequences, FiniteSets, TLC

VARIABLES pc, req, url, path, channel_identifier, channel_id, video_id,
          channel_data, playlist_items, item_idx, videos, video_data,
          comments, calls, result

vars == <<pc, req, url, path, channel_identifier, channel_id, video_id,
          channel_data, playlist_items, item_idx, videos, video_data,
          comments, calls, result>>

\* ------------------------------------------------------------------ bounds
\* Largest subscriber count a channel resource reports in the model.
MaxSubs == 3
\* Largest number of uploads the uploads playlist holds in the model.
MaxItems == 6
\* Largest number of comment threads a video has in the model.
MaxComments == 2

\* ------------------------------------------------------- program constants
\* get_recent_videos(self, playlist_id, max_results=10)
max_results == 10
\* 'recent_videos': recent_videos[:5]
SurfacedVideos == 5
\* len(channel_identifier) == 24
CanonicalLen == 24
\* ([0-9A-Za-z_-]{11})
VideoIdLen == 11
\* get_video_comments(self, video_id, max_results=50)
comments_max_results == 50

\* ------------------------------------------------------------- characters
Digits == {"0","1","2","3","4","5","6","7","8","9"}
Upper == {"A","B","C","D","E","F","G","H","I","J","K","L","M",
          "N","O","P","Q","R","S","T","U","V","W","X","Y","Z"}
Lower == {"a","b","c","d","e","f","g","h","i","j","k","l","m",
          "n","o","p","q","r","s","t","u","v","w","x","y","z"}
\* the character class [0-9A-Za-z_-]
VideoIdChars == Digits \cup Upper \cup Lower \cup {"_", "-"}
\* the complement of the character class [^/?&]
ChannelStopChars == {"/", "?", "&"}
\* characters str.strip() removes
Whitespace == {" ", "\t", "\n"}

\* ---------------------------------------------------------- Python values
None == [some |-> FALSE, val |-> <<>>]
Some(v) == [some |-> TRUE, val |-> v]

Min(a, b) == IF a <= b THEN a ELSE b
Max(a, b) == IF a >= b THEN a ELSE b

\* s[:n]
SliceTo(s, n) == SubSeq(s, 1, Min(n, Len(s)))

\* p occurs in s starting at 1-based position i
OccursAt(s, p, i) ==
    /\ i >= 1
    /\ i + Len(p) - 1 <= Len(s)
    /\ \A j \in 1..Len(p) : s[i + j - 1] = p[j]

\* p in s
Contains(s, p) == \E i \in 1..(Len(s) + 1) : OccursAt(s, p, i)

\* s.startswith(p)
startswith(s, p) == OccursAt(s, p, 1)

\* the url used as posted, without .strip()
strip_none(s) == s

\* s.strip()
strip(s) ==
    LET keep == {i \in 1..Len(s) : s[i] \notin Whitespace}
    IN  IF keep = {} THEN <<>>
        ELSE LET lo == CHOOSE i \in keep : \A j \in keep : i <= j
                 hi == CHOOSE i \in keep : \A j \in keep : i >= j
             IN  SubSeq(s, lo, hi)

\* s.split(sep)[-1]: what follows the last occurrence of sep (all of s when
\* sep does not occur).  None of the separators used overlaps itself.
SplitLast(s, sep) ==
    LET occ == {i \in 1..Len(s) : OccursAt(s, sep, i)}
    IN  IF occ = {} THEN s
        ELSE LET last == CHOOSE i \in occ : \A j \in occ : i >= j
             IN  SubSeq(s, last + Len(sep), Len(s))

\* s.split(sep)[0] for a one-character sep: what precedes its first occurrence
SplitFirst(s, c) ==
    LET occ == {i \in 1..Len(s) : s[i] = c}
    IN  IF occ = {} THEN s
        ELSE LET first == CHOOSE i \in occ : \A j \in occ : i <= j
             IN  SubSeq(s, 1, first - 1)

\* ---------------------------------------------------------------- literals
YoutubeCom == <<"y","o","u","t","u","b","e",".","c","o","m">>
MarkChannel == YoutubeCom \o <<"/","c","h","a","n","n","e","l","/">>
MarkC == YoutubeCom \o <<"/","c","/">>
MarkUser == YoutubeCom \o <<"/","u","s","e","r","/">>
MarkAt == YoutubeCom \o <<"/","@">>
MarkWatch == YoutubeCom \o <<"/","w","a","t","c","h">>
MarkYoutuBe == <<"y","o","u","t","u",".","b","e","/">>
MarkShorts == YoutubeCom \o <<"/","s","h","o","r","t","s","/">>
LitVEq == <<"v","=">>
LitSlash == <<"/">>
LitEmbed == <<"e","m","b","e","d","/">>
LitShorts == <<"s","h","o","r","t","s","/">>
LitUC == <<"U","C">>

\* ------------------------------------------------------------ URL Classifier
\* re.search(lit + '([^/?&]+)', u): leftmost occurrence of lit followed by at
\* least one non-stop character; group 1 is the maximal run of such characters.
SearchChannelPattern(u, lit) ==
    LET ok(i) == /\ OccursAt(u, lit, i)
                 /\ i + Len(lit) <= Len(u)
                 /\ u[i + Len(lit)] \notin ChannelStopChars
        hits == {i \in 1..Len(u) : ok(i)}
    IN  IF hits = {} THEN None
        ELSE LET i == CHOOSE h \in hits : \A g \in hits : h <= g
                 b == i + Len(lit)
                 stops == {j \in b..Len(u) : u[j] \in ChannelStopChars}
                 e == IF stops = {} THEN Len(u)
                      ELSE (CHOOSE j \in stops : \A k \in stops : j <= k) - 1
             IN  Some(SubSeq(u, b, e))

\* the pattern list of extract_channel_id, in order
ChannelPatterns == <<MarkChannel, MarkC, MarkUser, MarkAt>>

extract_channel_id(u) ==
    LET m == [k \in 1..Len(ChannelPatterns) |-> SearchChannelPattern(u, ChannelPatterns[k])]
        matched == {k \in 1..Len(ChannelPatterns) : m[k].some}
    IN  IF matched = {} THEN None
        ELSE m[CHOOSE k \in matched : \A l \in matched : k <= l]

\* eleven characters of [0-9A-Za-z_-] at 1-based positions b .. b+10
ElevenAt(u, b) ==
    /\ b + VideoIdLen - 1 <= Len(u)
    /\ \A j \in b..(b + VideoIdLen - 1) : u[j] \in VideoIdChars

\* the first video pattern without its v= alternative
SearchVideoPattern_slash_only(u, lits) ==
    LET used == lits \ {LitVEq}
        ok(i, lit) == OccursAt(u, lit, i) /\ ElevenAt(u, i + Len(lit))
        hits == {i \in 1..Len(u) : \E lit \in used : ok(i, lit)}
    IN  IF hits = {} THEN None
        ELSE LET i == CHOOSE h \in hits : \A g \in hits : h <= g
                 lit == CHOOSE l \in used : ok(i, l)
                 b == i + Len(lit)
             IN  Some(SubSeq(u, b, b + VideoIdLen - 1))

\* re.search('(?:' + alt1 + '|' + alt2 + ...')([0-9A-Za-z_-]{11})', u) for a
\* set of literal alternatives no two of which occur at the same position
SearchVideoPattern(u, lits) ==
    LET ok(i, lit) == OccursAt(u, lit, i) /\ ElevenAt(u, i + Len(lit))
        hits == {i \in 1..Len(u) : \E lit \in lits : ok(i, lit)}
    IN  IF hits = {} THEN None
        ELSE LET i == CHOOSE h \in hits : \A g \in hits : h <= g
                 lit == CHOOSE l \in lits : ok(i, l)
                 b == i + Len(lit)
             IN  Some(SubSeq(u, b, b + VideoIdLen - 1))

\* the pattern list of extract_video_id, in order
VideoPatterns == <<{LitVEq, LitSlash}, {LitEmbed}, {LitShorts}, {MarkYoutuBe}>>

extract_video_id(u) ==
    LET m == [k \in 1..Len(VideoPatterns) |-> SearchVideoPattern(u, VideoPatterns[k])]
        matched == {k \in 1..Len(VideoPatterns) : m[k].some}
    IN  IF matched = {} THEN None
        ELSE m[CHOOSE k \in matched : \A l \in matched : k <= l]

\* the two any(pattern in url ...) tests of analyze
IsChannelUrl(u) == \E mk \in {MarkChannel, MarkC, MarkUser, MarkAt} : Contains(u, mk)
IsVideoUrl(u) == \E mk \in {MarkWatch, MarkYoutuBe, MarkShorts} : Contains(u, mk)

\* the dispatch of analyze: channel markers are tested first
Dispatch(u) ==
    IF IsChannelUrl(u) THEN "channel"
    ELSE IF IsVideoUrl(u) THEN "video"
    ELSE "unsupported"

\* channel_identifier as analyze computes it: the regex pass, then the
\* split fallback for c/, @ and user/ (there is none for channel/)
ChannelIdentifier(u) ==
    LET r == extract_channel_id(u)
    IN  IF r.some THEN r
        ELSE IF Contains(u, MarkC) THEN Some(SplitFirst(SplitLast(u, MarkC), "/"))
        ELSE IF Contains(u, MarkAt) THEN Some(SplitFirst(SplitLast(u, MarkAt), "/"))
        ELSE IF Contains(u, MarkUser) THEN Some(SplitFirst(SplitLast(u, MarkUser), "/"))
        ELSE None

\* ------------------------------------------------------ Metrics Calculator
\* a / b rounded to the nearest integer, ties to even: the rounding of the
\* f"{x:.1f}" / f"{x:.2f}" / f"{x:.4f}" formats applied to the exact quotient
RoundDiv(a, b) ==
    LET q == a \div b
        r == a % b
    IN  IF 2 * r > b THEN q + 1
        ELSE IF 2 * r < b THEN q
        ELSE IF q % 2 = 0 THEN q ELSE q + 1

\* The string format_number returns, as its parts: "12" is
\* [whole |-> 12, tenth |-> 0, unit |-> ""], "1.5K" is
\* [whole |-> 1, tenth |-> 5, unit |-> "K"].
Scaled(num, scale, unit) ==
    LET t == RoundDiv(num, scale \div 10)
    IN  [whole |-> t \div 10, tenth |-> t % 10, unit |-> unit]

format_number(num) ==
    IF num >= 1000000000 THEN Scaled(num, 1000000000, "B")
    ELSE IF num >= 1000000 THEN Scaled(num, 1000000, "M")
    ELSE IF num >= 1000 THEN Scaled(num, 1000, "K")
    ELSE [whole |-> num, tenth |-> 0, unit |-> ""]

\* f"{x:.2f}%" as the number of hundredths of a percent
Percent(hundredths) == [hundredths |-> hundredths]

RECURSIVE SumViews(_)
SumViews(vs) == IF vs = <<>> THEN 0 ELSE vs[1].raw_data.views + SumViews(Tail(vs))
RECURSIVE SumLikes(_)
SumLikes(vs) == IF vs = <<>> THEN 0 ELSE vs[1].raw_data.likes + SumLikes(Tail(vs))
RECURSIVE SumComments(_)
SumComments(vs) == IF vs = <<>> THEN 0 ELSE vs[1].raw_data.comments + SumComments(Tail(vs))

\* the empty dict {}
EmptyObject == [k \in {} |-> 0]

\* int(channel_stats.get('subscriberCount', 1))
EngagementSubscriberCount(channel_stats) ==
    IF channel_stats.hasSubs THEN channel_stats.subscriberCount ELSE 1

\* the rate with the divisor max(subscriber_count, 1)
EngagementRate_max_one(total_likes, total_comments, subscriber_count) ==
    RoundDiv((total_likes + total_comments) * 10000, Max(subscriber_count, 1))

\* (total_likes + total_comments) / subscriber_count * 100 if subscriber_count > 0 else 0,
\* in hundredths of a percent
EngagementRate(total_likes, total_comments, subscriber_count) ==
    IF subscriber_count > 0
    THEN RoundDiv((total_likes + total_comments) * 10000, subscriber_count)
    ELSE 0

calculate_channel_engagement(recent_videos, channel_stats) ==
    IF recent_videos = <<>> THEN EmptyObject
    ELSE LET total_views == SumViews(recent_videos)
             total_likes == SumLikes(recent_videos)
             total_comments == SumComments(recent_videos)
             subscriber_count == EngagementSubscriberCount(channel_stats)
         IN  [avg_views_per_video |-> format_number(total_views \div Len(recent_videos)),
              engagement_rate |-> Percent(EngagementRate(total_likes, total_comments, subscriber_count)),
              total_recent_views |-> format_number(total_views),
              total_recent_likes |-> format_number(total_likes),
              total_recent_comments |-> format_number(total_comments)]

\* likes_per_view is the literal "0" when views = 0, else four decimals,
\* kept as a number of ten-thousandths
calculate_video_engagement(stats) ==
    LET views == stats.viewCount
        likes == stats.likeCount
        cmts == stats.commentCount
        like_ratio == IF views > 0 THEN RoundDiv(likes * 10000, views) ELSE 0
        comment_ratio == IF views > 0 THEN RoundDiv(cmts * 10000, views) ELSE 0
        total_engagement == IF views > 0 THEN RoundDiv((likes + cmts) * 10000, views) ELSE 0
    IN  [like_ratio |-> Percent(like_ratio),
         comment_ratio |-> Percent(comment_ratio),
         total_engagement |-> Percent(total_engagement),
         likes_per_view |-> IF views > 0
                            THEN [literal |-> FALSE, tenthousandths |-> RoundDiv(likes * 10000, views)]
                            ELSE [literal |-> TRUE, tenthousandths |-> 0]]

UpperSeq == <<"A","B","C","D","E","F","G","H","I","J","K","L","M",
              "N","O","P","Q","R","S","T","U","V","W","X","Y","Z">>
LowerSeq == <<"a","b","c","d","e","f","g","h","i","j","k","l","m",
              "n","o","p","q","r","s","t","u","v","w","x","y","z">>

\* text.lower()
lower(text) ==
    [i \in 1..Len(text) |->
        IF text[i] \in Upper
        THEN LowerSeq[CHOOSE k \in 1..Len(UpperSeq) : UpperSeq[k] = text[i]]
        ELSE text[i]]

positive_words == {<<"g","r","e","a","t">>,
                   <<"a","w","e","s","o","m","e">>,
                   <<"a","m","a","z","i","n","g">>,
                   <<"l","o","v","e">>,
                   <<"g","o","o","d">>,
                   <<"e","x","c","e","l","l","e","n","t">>,
                   <<"p","e","r","f","e","c","t">>,
                   <<"n","i","c","e">>,
                   <<"w","o","n","d","e","r","f","u","l">>}
negative_words == {<<"b","a","d">>,
                   <<"t","e","r","r","i","b","l","e">>,
                   <<"a","w","f","u","l">>,
                   <<"h","a","t","e">>,
                   <<"w","o","r","s","t">>,
                   <<"h","o","r","r","i","b","l","e">>,
                   <<"d","i","s","l","i","k","e">>,
                   <<"p","o","o","r">>}

analyze_sentiment(text) ==
    LET text_lower == lower(text)
        positive_count == Cardinality({wd \in positive_words : Contains(text_lower, wd)})
        negative_count == Cardinality({wd \in negative_words : Contains(text_lower, wd)})
    IN  IF positive_count > negative_count THEN "positive"
        ELSE IF negative_count > positive_count THEN "negative"
        ELSE "neutral"

\* ------------------------------------------------------------------ inputs
Rep(c, n) == [i \in 1..n |-> c]

\* a canonical channel id: UC + 22 characters
CanonId == LitUC \o Rep("x", CanonicalLen - 2)
\* prefix UC but 23 characters
ShortId == LitUC \o Rep("x", CanonicalLen - 3)
\* 24 characters but no UC prefix
OtherId == <<"A","B">> \o Rep("x", CanonicalLen - 2)
Handle == <<"h","n">>
\* the channel id the search call returns when it finds a channel
ResolvedId == LitUC \o Rep("r", CanonicalLen - 2)
VidA == <<"A","B","C","D","E","F","G","H","I","J","K">>

HttpsWww == <<"h","t","t","p","s",":","/","/","w","w","w",".">>
Https == <<"h","t","t","p","s",":","/","/">>
WatchQuery == <<"?","v","=">>

\* the URLs posted to /analyze
Requests ==
    { <<>>,
      <<" ", "\t">>,
      <<"h","t","t","p","s",":","/","/","e","x","a","m","p","l","e",".","c","o","m","/","v">>,
      <<" ">> \o <<"h","t","t","p","s",":","/","/","v","i","m","e","o",".","c","o","m","/","1">> \o <<"\n">>,
      HttpsWww \o MarkChannel \o CanonId,
      HttpsWww \o MarkAt \o Handle,
      HttpsWww \o MarkChannel \o ShortId,
      HttpsWww \o MarkChannel \o OtherId,
      HttpsWww \o MarkChannel,
      HttpsWww \o MarkWatch \o WatchQuery \o VidA,
      HttpsWww \o MarkWatch,
      <<" ">> \o Https \o MarkYoutuBe \o VidA \o <<"\n">> }

\* ------------------------------------------------------- remote API outcomes
\* Every remote call either returns a payload with items ("ok"), a payload
\* with no items ("empty": zero items or no 'items' key), or fails inside the
\* caller's try block before any dependent call ("raise": transport error,
\* invalid JSON, or a payload lacking a key read before the dependent call).
\* "incomplete" is a primary payload with items[0] lacking a key that is read
\* only when the result is assembled (title, thumbnails, publishedAt).
SearchOutcomes ==
    { [kind |-> "ok", channelId |-> ResolvedId],
      [kind |-> "empty", channelId |-> <<>>],
      [kind |-> "raise", channelId |-> <<>>] }

\* a channel's statistics; hasSubs is whether 'subscriberCount' is present
ChannelStatistics(hasSubs, n) ==
    [hasSubs |-> hasSubs, subscriberCount |-> n, viewCount |-> 2300000, videoCount |-> 42]

NoStats == ChannelStatistics(FALSE, 0)

ChannelOutcomes ==
    { [kind |-> "ok", statistics |-> ChannelStatistics(TRUE, n)] : n \in 0..MaxSubs }
    \cup { [kind |-> k, statistics |-> NoStats] : k \in {"ok", "incomplete", "empty", "raise"} }

\* the uploads playlist, newest first: video ids in an order that is not the
\* order of the ids
Uploads(n) == [i \in 1..n |-> IF i % 2 = 1 THEN i + 1 ELSE i - 1]

PlaylistOutcomes ==
    { [kind |-> "ok", items |-> Uploads(n)] : n \in 0..Min(MaxItems, max_results) }
    \cup { [kind |-> k, items |-> <<>>] : k \in {"empty", "raise"} }

\* the statistics the videos endpoint reports for video id v
VideoStatistics(v) == [viewCount |-> 301 * v, likeCount |-> 2 * v, commentCount |-> v % 3]

VideoByIdOutcomes == {"ok", "empty", "raise"}

VideoOutcomes ==
    { [kind |-> k, statistics |-> st] :
        k \in {"ok", "incomplete"},
        st \in { [viewCount |-> 0, likeCount |-> 5, commentCount |-> 2],
                 [viewCount |-> 100, likeCount |-> 10, commentCount |-> 5] } }
    \cup { [kind |-> k, statistics |-> [viewCount |-> 0, likeCount |-> 0, commentCount |-> 0]] :
             k \in {"empty", "raise"} }

CommentTexts == { <<"G","o","o","d"," ","b","a","d">>,
                  <<"l","o","v","e"," ","i","t">>,
                  <<"w","o","r","s","t">> }

CommentOutcomes ==
    { [kind |-> "ok", texts |-> t] :
        t \in UNION { [1..n -> CommentTexts] : n \in 0..Min(MaxComments, comments_max_results) } }
    \cup { [kind |-> k, texts |-> <<>>] : k \in {"empty", "raise"} }

\* ------------------------------------------------------------------ results
\* what jsonify sends back: a JSON object or the JSON value null
JsonObject(body) == [json |-> "object", body |-> body]
JsonNull == [json |-> "null", body |-> EmptyObject]
Pending == [json |-> "pending", body |-> EmptyObject]

ErrorResult(msg) == JsonObject([success |-> FALSE, error |-> msg])

\* one entry of the log of remote calls issued by the current request
Call(op, pos, kind, ret) == [op |-> op, pos |-> pos, kind |-> kind, ret |-> ret]

\* ------------------------------------------------------------ Stats Aggregator
\* the canonical test without the length test
IsCanonical_prefix_only(id) == startswith(id, LitUC)

\* channel_identifier.startswith('UC') and len(channel_identifier) == 24
IsCanonical(id) == startswith(id, LitUC) /\ Len(id) = CanonicalLen

\* get_channel_stats returns None when resolution fails and analyze passes
\* it to jsonify
UnresolvedResult == JsonNull

\* a failed search is tried again
AfterFailedSearch_retry == "search"

\* where the request goes after a search that found no channel
AfterFailedSearch == "done"

\* only a raised call aborts; a payload with zero items is used as if it had one
PrimaryAborts_only_raise(kind) == kind = "raise"

\* the primary fetch yields no resource: the call raised, or the test
\* 'items' in data and len(data['items']) > 0 is false
PrimaryAborts(kind) == kind \in {"empty", "raise"}

\* the dict get_video_stats_by_id returns for video id v
VideoSummary(v) ==
    LET st == VideoStatistics(v)
    IN  [title |-> v, published_at |-> v,
         raw_data |-> [views |-> st.viewCount, likes |-> st.likeCount,
                       comments |-> st.commentCount]]

\* recent_videos[-5:]
Surfaced_last_five(recent_videos) ==
    SubSeq(recent_videos, Max(1, Len(recent_videos) - SurfacedVideos + 1), Len(recent_videos))

\* recent_videos[:5]
Surfaced(recent_videos) == SliceTo(recent_videos, SurfacedVideos)

\* the videos handed to calculate_channel_engagement
EngagementInput(recent_videos) == recent_videos

\* the dict get_channel_stats returns on success
ChannelResult(cd, recent_videos) ==
    LET stats == cd.statistics
        subs == IF stats.hasSubs THEN stats.subscriberCount ELSE 0
    IN  JsonObject(
          [success |-> TRUE,
           type |-> "channel",
           title |-> "title",
           description |-> "description",
           custom_url |-> "customUrl",
           subscribers |-> format_number(subs),
           views |-> format_number(stats.viewCount),
           videos |-> format_number(stats.videoCount),
           thumbnail |-> "thumbnail",
           country |-> "Not specified",
           published_at |-> "publishedAt",
           engagement_metrics |-> calculate_channel_engagement(EngagementInput(recent_videos), stats),
           recent_videos |-> Surfaced(recent_videos),
           raw_data |-> [subscribers |-> subs, views |-> stats.viewCount,
                         videos |-> stats.videoCount]])

\* get_channel_stats when calculate_channel_engagement has no guard for an
\* empty list: the division by len(recent_videos) raises inside the try block
FinishChannel_no_empty_guard(cd, recent_videos) ==
    IF cd.kind = "incomplete" \/ recent_videos = <<>>
    THEN ErrorResult("Could not fetch channel data")
    ELSE ChannelResult(cd, recent_videos)

\* the end of get_channel_stats once get_recent_videos has returned: a key
\* missing from the channel resource raises inside the try block
FinishChannel(cd, recent_videos) ==
    IF cd.kind = "incomplete" THEN ErrorResult("Could not fetch channel data")
    ELSE ChannelResult(cd, recent_videos)

\* the list get_video_comments builds from the returned threads
CommentList(texts) ==
    [i \in 1..Len(texts) |->
        [author |-> "author", text |-> texts[i], likes |-> 0,
         published_at |-> "publishedAt", sentiment |-> analyze_sentiment(texts[i])]]

\* what get_video_comments returns for an outcome of commentThreads.list
get_video_comments(o) == IF o.kind = "ok" THEN CommentList(o.texts) ELSE <<>>

\* the dict get_video_stats returns on success
VideoResult(vd, cmts) ==
    LET stats == vd.statistics
    IN  JsonObject(
          [success |-> TRUE,
           type |-> "video",
           title |-> "title",
           description |-> "description",
           channel_title |-> "channelTitle",
           channel_id |-> "channelId",
           views |-> format_number(stats.viewCount),
           likes |-> format_number(stats.likeCount),
           comments |-> format_number(stats.commentCount),
           duration |-> "PT5M9S",
           published_at |-> "publishedAt",
           thumbnail |-> "thumbnail",
           category_id |-> "categoryId",
           tags |-> <<>>,
           comments_data |-> cmts,
           engagement_metrics |-> calculate_video_engagement(stats),
           raw_data |-> [views |-> stats.viewCount, likes |-> stats.likeCount,
                         comments |-> stats.commentCount, duration |-> "PT5M9S"]])

FinishVideo(vd, cmts) ==
    IF vd.kind = "incomplete" THEN ErrorResult("Could not fetch video data")
    ELSE VideoResult(vd, cmts)

NoData == [kind |-> "none", statistics |-> NoStats]

\* analyze up to its first remote call: strip, the empty test, the dispatch,
\* extraction, and the tests get_channel_stats / get_video_stats make before
\* calling out.  get_channel_stats(None) raises AttributeError, which the
\* catch-all of analyze turns into 'Analysis failed: ...'.
Entry(u) ==
    LET su == strip(u)
        ci == ChannelIdentifier(su)
        vid == extract_video_id(su)
        stop(p, r) == [pc |-> "done", path |-> p, ci |-> None, cid |-> None,
                       vid |-> None, result |-> r]
    IN  IF su = <<>> THEN stop("none", ErrorResult("Please provide a URL"))
        ELSE IF Dispatch(su) = "channel" THEN
            IF ~ci.some
            THEN stop("channel", ErrorResult("Analysis failed: 'NoneType' object has no attribute 'startswith'"))
            ELSE IF IsCanonical(ci.val)
            THEN [pc |-> "channels", path |-> "channel", ci |-> ci, cid |-> ci,
                  vid |-> None, result |-> Pending]
            ELSE [pc |-> "search", path |-> "channel", ci |-> ci, cid |-> None,
                  vid |-> None, result |-> Pending]
        ELSE IF Dispatch(su) = "video" THEN
            IF ~vid.some
            THEN stop("video", ErrorResult("Invalid video URL"))
            ELSE [pc |-> "videos", path |-> "video", ci |-> None, cid |-> None,
                  vid |-> vid, result |-> Pending]
        ELSE stop("unsupported", ErrorResult("Unsupported URL format"))

\* ------------------------------------------------------------ state machine
Init ==
    /\ pc = "idle"
    /\ req = <<>>
    /\ url = <<>>
    /\ path = "none"
    /\ channel_identifier = None
    /\ channel_id = None
    /\ video_id = None
    /\ channel_data = NoData
    /\ playlist_items = <<>>
    /\ item_idx = 0
    /\ videos = <<>>
    /\ video_data = NoData
    /\ comments = <<>>
    /\ calls = <<>>
    /\ result = Pending

\* POST /analyze arrives with url u
analyze(u) ==
    /\ pc = "idle"
    /\ LET e == Entry(u)
       IN  /\ pc' = e.pc
           /\ path' = e.path
           /\ channel_identifier' = e.ci
           /\ channel_id' = e.cid
           /\ video_id' = e.vid
           /\ result' = e.result
    /\ req' = u
    /\ url' = strip(u)
    /\ calls' = <<>>
    /\ UNCHANGED <<channel_data, playlist_items, item_idx, videos, video_data, comments>>

\* the search call of get_channel_id_from_custom_url and the test that follows
get_channel_id_from_custom_url ==
    /\ pc = "search"
    /\ \E o \in SearchOutcomes :
        /\ calls' = Append(calls, Call("search", 0, o.kind, o.channelId))
        /\ IF o.kind = "ok"
           THEN /\ channel_id' = Some(o.channelId)
                /\ pc' = "channels"
                /\ UNCHANGED result
           ELSE /\ channel_id' = None
                /\ pc' = AfterFailedSearch
                /\ result' = UnresolvedResult
    /\ UNCHANGED <<req, url, path, channel_identifier, video_id, channel_data,
                   playlist_items, item_idx, videos, video_data, comments>>

\* the channels call of get_channel_stats
get_channel_stats ==
    /\ pc = "channels"
    /\ \E o \in ChannelOutcomes :
        /\ calls' = Append(calls, Call("channels.get", 0, o.kind, <<>>))
        /\ IF PrimaryAborts(o.kind)
           THEN /\ pc' = "done"
                /\ result' = ErrorResult("Could not fetch channel data")
                /\ UNCHANGED channel_data
           ELSE /\ pc' = "playlist"
                /\ channel_data' = o
                /\ UNCHANGED result
    /\ UNCHANGED <<req, url, path, channel_identifier, channel_id, video_id,
                   playlist_items, item_idx, videos, video_data, comments>>

\* the playlistItems call of get_recent_videos
get_recent_videos ==
    /\ pc = "playlist"
    /\ \E o \in PlaylistOutcomes :
        /\ calls' = Append(calls, Call("playlistItems.list", 0, o.kind, <<>>))
        /\ videos' = <<>>
        /\ IF o.kind = "ok" /\ o.items # <<>>
           THEN /\ playlist_items' = o.items
                /\ item_idx' = 1
                /\ pc' = "video_by_id"
                /\ UNCHANGED result
           ELSE /\ pc' = "done"
                /\ result' = FinishChannel(channel_data, <<>>)
                /\ UNCHANGED <<playlist_items, item_idx>>
    /\ UNCHANGED <<req, url, path, channel_identifier, channel_id, video_id,
                   channel_data, video_data, comments>>

\* one iteration of the loop of get_recent_videos: the videos call of
\* get_video_stats_by_id for the item at item_idx; after the last item
\* get_channel_stats assembles its result
get_video_stats_by_id ==
    /\ pc = "video_by_id"
    /\ \E k \in VideoByIdOutcomes :
        LET v == playlist_items[item_idx]
            vs == IF k = "ok" THEN Append(videos, VideoSummary(v)) ELSE videos
        IN  /\ calls' = Append(calls, Call("videos.get", item_idx, k, <<>>))
            /\ videos' = vs
            /\ IF item_idx = Len(playlist_items)
               THEN /\ pc' = "done"
                    /\ result' = FinishChannel(channel_data, vs)
                    /\ UNCHANGED item_idx
               ELSE /\ item_idx' = item_idx + 1
                    /\ UNCHANGED <<pc, result>>
    /\ UNCHANGED <<req, url, path, channel_identifier, channel_id, video_id,
                   channel_data, playlist_items, video_data, comments>>

\* the videos call of get_video_stats
get_video_stats ==
    /\ pc = "videos"
    /\ \E o \in VideoOutcomes :
        /\ calls' = Append(calls, Call("videos.get", 0, o.kind, <<>>))
        /\ IF PrimaryAborts(o.kind)
           THEN /\ pc' = "done"
                /\ result' = ErrorResult("Could not fetch video data")
                /\ UNCHANGED video_data
           ELSE /\ pc' = "comments"
                /\ video_data' = o
                /\ UNCHANGED result
    /\ UNCHANGED <<req, url, path, channel_identifier, channel_id, video_id,
                   channel_data, playlist_items, item_idx, videos, comments>>

\* the commentThreads call of get_video_comments, then the assembly of the
\* video result
fetch_video_comments ==
    /\ pc = "comments"
    /\ \E o \in CommentOutcomes :
        /\ calls' = Append(calls, Call("commentThreads.list", 0, o.kind, <<>>))
        /\ comments' = get_video_comments(o)
        /\ result' = FinishVideo(video_data, get_video_comments(o))
    /\ pc' = "done"
    /\ UNCHANGED <<req, url, path, channel_identifier, channel_id, video_id,
                   channel_data, playlist_items, item_idx, videos, video_data>>

\* return jsonify(result): the request's data is discarded
respond ==
    /\ pc = "done"
    /\ pc' = "idle"
    /\ req' = <<>>
    /\ url' = <<>>
    /\ path' = "none"
    /\ channel_identifier' = None
    /\ channel_id' = None
    /\ video_id' = None
    /\ channel_data' = NoData
    /\ playlist_items' = <<>>
    /\ item_idx' = 0
    /\ videos' = <<>>
    /\ video_data' = NoData
    /\ comments' = <<>>
    /\ calls' = <<>>
    /\ result' = Pending

Next ==
    \/ \E u \in Requests : analyze(u)
    \/ get_channel_id_from_custom_url
    \/ get_channel_stats
    \/ get_recent_videos
    \/ get_video_stats_by_id
    \/ get_video_stats
    \/ fetch_video_comments
    \/ respond

Spec == Init /\ [][Next]_vars

\* ------------------------------------------- the classifier on its own
\* The first lines of analyze, one step at a time, over the supported URL
\* shapes: strip, the dispatch, extraction by regex, the split fallback.

\* identifiers the round-trip URLs are built from
RoundTripChannelIds == { CanonId, Handle, <<"w","a","t","c","h">>, <<"v","=","A","B","C","D","E","F","G","H","I","J","K">>,
                         <<"a",".","b","-","c","_","d","=","e","#","f">> }
RoundTripVideoIds == { VidA, <<"d","Q","w","4","w","9","W","g","X","c","Q">>, <<"-","_","-","_","-","_","-","_","-","_","-">>,
                       <<"0","c","h","a","n","n","e","l","_","c","9">> }
SitePrefixes == { HttpsWww, <<"h","t","t","p",":","/","/">>, <<"h","t","t","p","s",":","/","/","m",".">>, <<>> }
ShortPrefixes == { Https, <<>> }

RoundTripInputs ==
    { [shape |-> sh, prefix |-> pf, x |-> x] :
        sh \in {"channel", "handle"}, pf \in SitePrefixes, x \in RoundTripChannelIds }
    \cup { [shape |-> sh, prefix |-> pf, x |-> x] :
        sh \in {"watch", "shorts"}, pf \in SitePrefixes, x \in RoundTripVideoIds }
    \cup { [shape |-> "short", prefix |-> pf, x |-> x] :
        pf \in ShortPrefixes, x \in RoundTripVideoIds }

BuildUrl(r) ==
    r.prefix \o
    ( CASE r.shape = "channel" -> MarkChannel
        [] r.shape = "handle" -> MarkAt
        [] r.shape = "watch" -> MarkWatch \o WatchQuery
        [] r.shape = "shorts" -> MarkShorts
        [] r.shape = "short" -> MarkYoutuBe ) \o r.x

classify_receive(u) ==
    /\ pc = "idle"
    /\ req' = u
    /\ url' = strip(u)
    /\ pc' = "dispatch"
    /\ UNCHANGED <<path, channel_identifier, channel_id, video_id, channel_data,
                   playlist_items, item_idx, videos, video_data, comments, calls, result>>

classify_dispatch ==
    /\ pc = "dispatch"
    /\ path' = Dispatch(url)
    /\ pc' = IF Dispatch(url) = "unsupported" THEN "classified" ELSE "extract"
    /\ UNCHANGED <<req, url, channel_identifier, channel_id, video_id, channel_data,
                   playlist_items, item_idx, videos, video_data, comments, calls, result>>

classify_extract ==
    /\ pc = "extract"
    /\ IF path = "channel"
       THEN /\ channel_identifier' = extract_channel_id(url)
            /\ pc' = "fallback"
            /\ UNCHANGED video_id
       ELSE /\ video_id' = extract_video_id(url)
            /\ pc' = "classified"
            /\ UNCHANGED channel_identifier
    /\ UNCHANGED <<req, url, path, channel_id, channel_data,
                   playlist_items, item_idx, videos, video_data, comments, calls, result>>

classify_fallback ==
    /\ pc = "fallback"
    /\ channel_identifier' = ChannelIdentifier(url)
    /\ pc' = "classified"
    /\ UNCHANGED <<req, url, path, channel_id, video_id, channel_data,
                   playlist_items, item_idx, videos, video_data, comments, calls, result>>

NextClassify ==
    \/ \E r \in RoundTripInputs : classify_receive(BuildUrl(r))
    \/ classify_dispatch
    \/ classify_extract
    \/ classify_fallback

SpecClassify == Init /\ [][NextClassify]_vars

TypeOK ==
    /\ pc \in {"idle", "search", "channels", "playlist", "video_by_id", "videos",
               "comments", "done", "dispatch", "extract", "fallback", "classified"}
    /\ path \in {"none", "channel", "video", "unsupported"}
    /\ item_idx \in 0..max_results
    /\ Len(videos) <= Len(playlist_items)
    /\ Len(playlist_items) <= max_results
    /\ Len(comments) <= comments_max_results

\* ------------------------------------------------------------------- claims
\* indices of the logged calls of operation op
CallsOf(op) == {i \in DOMAIN calls : calls[i].op = op}
\* the primary fetch of the request: channels.get, or videos.get outside the loop
PrimaryCalls == {i \in DOMAIN calls : calls[i].pos = 0 /\ calls[i].op \in {"channels.get", "videos.get"}}
\* secondary enrichment calls
SecondaryCalls ==
    {i \in DOMAIN calls : \/ calls[i].op \in {"playlistItems.list", "commentThreads.list"}
                          \/ (calls[i].op = "videos.get" /\ calls[i].pos > 0)}
PrimarySucceeded == \E i \in PrimaryCalls : calls[i].kind = "ok"

IsObject(r) == r.json = "object"
IsSuccess(r) == IsObject(r) /\ r.body.success
IsFailure(r) == IsObject(r) /\ ~r.body.success /\ DOMAIN r.body = {"success", "error"}

ChannelFields == {"success", "type", "title", "description", "custom_url", "subscribers",
                  "views", "videos", "thumbnail", "country", "published_at",
                  "engagement_metrics", "recent_videos", "raw_data"}
VideoFields == {"success", "type", "title", "description", "channel_title", "channel_id",
                "views", "likes", "comments", "duration", "published_at", "thumbnail",
                "category_id", "tags", "comments_data", "engagement_metrics", "raw_data"}

WellFormed(r) ==
    /\ IsObject(r)
    /\ IF r.body.success
       THEN \/ (r.body.type = "channel" /\ DOMAIN r.body = ChannelFields)
            \/ (r.body.type = "video" /\ DOMAIN r.body = VideoFields)
       ELSE DOMAIN r.body = {"success", "error"}

\* C1: whatever the URL and whatever the outcome of every remote call, the
\* value analyze returns is a well-formed AnalysisResult: success=true with all
\* channel or video fields, or success=false with only an error message.
C1_AlwaysWellFormed == pc = "done" => WellFormed(result)

\* the identifier is canonical: prefix UC and exactly 24 characters
CanonicalShape(id) == Len(id) = 24 /\ id[1] = "U" /\ id[2] = "C"

\* C2: on the channel path, when the identifier is not canonical and the
\* search returns zero results or raises, the request ends with a failure
\* result (success=false and an error message) and no channels.get,
\* playlistItems.list or videos.get call is issued.
C2_ResolutionFailureIsFailureResult ==
    (/\ pc = "done"
     /\ path = "channel"
     /\ channel_identifier.some
     /\ ~CanonicalShape(channel_identifier.val)
     /\ \E i \in CallsOf("search") : calls[i].kind \in {"empty", "raise"})
    => /\ IsFailure(result)
       /\ CallsOf("channels.get") = {}
       /\ CallsOf("playlistItems.list") = {}
       /\ CallsOf("videos.get") = {}

\* C3: when the primary fetch succeeds, a failed secondary call never aborts
\* the request: the result has success=true; comments_data is empty when the
\* comment fetch failed; recent_videos is empty and engagement_metrics is the
\* empty object when the playlist fetch failed.
C3_SecondaryFailureDegrades ==
    (pc = "done" /\ PrimarySucceeded)
    => /\ IsSuccess(result)
       /\ (\E i \in CallsOf("commentThreads.list") : calls[i].kind # "ok")
            => result.body.comments_data = <<>>
       /\ (\E i \in CallsOf("playlistItems.list") : calls[i].kind # "ok")
            => /\ result.body.recent_videos = <<>>
               /\ DOMAIN result.body.engagement_metrics = {}

\* a successful channel result some of whose per-video fetches failed
C3_Witness ==
    /\ pc = "done"
    /\ path = "channel"
    /\ PrimarySucceeded
    /\ \E i \in CallsOf("videos.get") : calls[i].pos > 0 /\ calls[i].kind = "raise"
    /\ IsSuccess(result)
    /\ Len(result.body.recent_videos) > 0

\* C4: when channels.get / videos.get raises or returns zero items, the
\* request ends with {success: false, error: 'Could not fetch channel data'}
\* (resp. 'Could not fetch video data') and no secondary call is issued.
C4_PrimaryFailureAborts ==
    \A i \in PrimaryCalls :
        calls[i].kind \in {"empty", "raise"}
        => /\ pc = "done"
           /\ SecondaryCalls = {}
           /\ result = [json |-> "object",
                        body |-> [success |-> FALSE,
                                  error |-> IF calls[i].op = "channels.get"
                                            THEN "Could not fetch channel data"
                                            ELSE "Could not fetch video data"]]

\* a request whose channels.get returned zero items
C4_Witness ==
    /\ pc = "done"
    /\ \E i \in CallsOf("channels.get") : calls[i].kind = "empty"
    /\ IsFailure(result)
    /\ result.body.error = "Could not fetch channel data"

\* C5: resolution issues zero search calls for an identifier with prefix UC
\* and length 24, whose channel id is the identifier unchanged; for any other
\* identifier it issues exactly one search call and yields the first result's
\* channel id, or not_found when there are no results or the call fails.
C5_SearchCallsFixedByShape ==
    (path = "channel" /\ channel_identifier.some /\ pc \in {"search", "channels", "playlist", "video_by_id", "done"})
    => IF CanonicalShape(channel_identifier.val)
       THEN /\ pc # "search"
            /\ CallsOf("search") = {}
            /\ channel_id = channel_identifier
       ELSE IF pc = "search"
       THEN calls = <<>>
       ELSE /\ Cardinality(CallsOf("search")) = 1
            /\ calls[1].op = "search"
            /\ channel_id = IF calls[1].kind = "ok" THEN [some |-> TRUE, val |-> calls[1].ret]
                            ELSE [some |-> FALSE, val |-> <<>>]

\* a canonical identifier whose channels.get has been issued with no search
C5_Witness ==
    /\ path = "channel"
    /\ channel_identifier.some
    /\ CanonicalShape(channel_identifier.val)
    /\ pc = "playlist"
    /\ CallsOf("search") = {}
    /\ channel_id = channel_identifier

Blank(s) == \A i \in 1..Len(s) : s[i] \in Whitespace

\* C6: analyzing an empty or whitespace-only URL returns 'Please provide a
\* URL', analyzing a URL with no channel and no video marker returns
\* 'Unsupported URL format', and neither issues any remote call.
C6_RejectedInputNoCalls ==
    /\ (pc # "idle" /\ Blank(req))
         => /\ pc = "done"
            /\ calls = <<>>
            /\ result = [json |-> "object", body |-> [success |-> FALSE, error |-> "Please provide a URL"]]
    /\ (pc # "idle" /\ ~Blank(req) /\ ~IsChannelUrl(req) /\ ~IsVideoUrl(req))
         => /\ pc = "done"
            /\ calls = <<>>
            /\ result = [json |-> "object", body |-> [success |-> FALSE, error |-> "Unsupported URL format"]]

\* a whitespace-only URL that was rejected
C6_Witness ==
    /\ pc = "done"
    /\ req # <<>>
    /\ Blank(req)
    /\ calls = <<>>
    /\ IsFailure(result)
    /\ result.body.error = "Please provide a URL"

\* C7: for every URL of a supported shape built from an identifier X, the
\* dispatch picks the matching path and extract_channel_id / extract_video_id
\* returns exactly X.
C7_ClassifierRoundTrip ==
    \A r \in RoundTripInputs :
        req = BuildUrl(r) =>
            /\ pc \in {"extract", "fallback", "classified"}
                 => path = IF r.shape \in {"channel", "handle"} THEN "channel" ELSE "video"
            /\ (pc \in {"fallback", "classified"} /\ r.shape \in {"channel", "handle"})
                 => channel_identifier = [some |-> TRUE, val |-> r.x]
            /\ (pc = "classified" /\ r.shape \in {"watch", "shorts", "short"})
                 => video_id = [some |-> TRUE, val |-> r.x]

\* a watch URL whose video id was extracted
C7_Witness ==
    /\ pc = "classified"
    /\ path = "video"
    /\ \E r \in RoundTripInputs : r.shape = "watch" /\ req = BuildUrl(r) /\ video_id = [some |-> TRUE, val |-> r.x]

\* totals over every video whose fetch succeeded
AllLikes == SumLikes(videos)
AllComments == SumComments(videos)
ReportedSubs == channel_data.statistics.subscriberCount
ChannelDone ==
    /\ pc = "done"
    /\ path = "channel"
    /\ IsSuccess(result)

\* C8 as stated: for a non-empty list of videos and a subscriber count >= 0,
\* engagement_rate = (total_likes + total_comments) / max(subscriber_count, 1) * 100.
C8_RateDividesByMaxSubsOne ==
    (ChannelDone /\ videos # <<>> /\ channel_data.statistics.hasSubs)
    => result.body.engagement_metrics.engagement_rate
         = [hundredths |-> RoundDiv((AllLikes + AllComments) * 10000, Max(ReportedSubs, 1))]

\* C8 amended: engagement_rate = (total_likes + total_comments) /
\* subscriber_count * 100 when subscriber_count > 0, and 0 when
\* subscriber_count = 0.
C8_RateZeroWithoutSubscribers ==
    (ChannelDone /\ videos # <<>> /\ channel_data.statistics.hasSubs)
    => result.body.engagement_metrics.engagement_rate
         = IF ReportedSubs > 0
           THEN [hundredths |-> RoundDiv((AllLikes + AllComments) * 10000, ReportedSubs)]
           ELSE [hundredths |-> 0]

\* a channel with zero subscribers and liked videos, reported at 0.00%
C8_Witness ==
    /\ ChannelDone
    /\ channel_data.statistics.hasSubs
    /\ ReportedSubs = 0
    /\ AllLikes + AllComments > 0
    /\ result.body.engagement_metrics.engagement_rate = [hundredths |-> 0]

\* playlist positions whose per-video fetch succeeded
OkPositions == {calls[i].pos : i \in {j \in CallsOf("videos.get") : calls[j].pos > 0 /\ calls[j].kind = "ok"}}
\* the n-th of them in playlist order
NthOk(n) == CHOOSE p \in OkPositions : Cardinality({q \in OkPositions : q < p}) = n - 1
\* the summaries of the fetched videos in playlist order
Fetched == [n \in 1..Cardinality(OkPositions) |-> VideoSummary(playlist_items[NthOk(n)])]

Stage(c) ==
    CASE c.op = "search" -> 1
      [] c.op = "channels.get" -> 2
      [] c.op = "playlistItems.list" -> 3
      [] c.op = "videos.get" /\ c.pos > 0 -> 4
      [] c.op = "videos.get" /\ c.pos = 0 -> 5
      [] c.op = "commentThreads.list" -> 6

\* C10: within one request each remote call is issued at most once (one
\* videos.get per playlist item on the channel path), and the calls occur in
\* pipeline order.
C10_NoRetryPipelineOrder ==
    /\ \A i, j \in DOMAIN calls :
         i < j => \/ Stage(calls[i]) < Stage(calls[j])
                  \/ (Stage(calls[i]) = 4 /\ Stage(calls[j]) = 4 /\ calls[i].pos < calls[j].pos)
    /\ \A i \in DOMAIN calls :
         /\ Stage(calls[i]) = 4 => calls[i].pos \in 1..Len(playlist_items)
         /\ path = "channel" => Stage(calls[i]) <= 4
         /\ path = "video" => Stage(calls[i]) >= 5

\* a channel request that searched, fetched the channel, listed the playlist
\* and fetched each of its items once
C10_Witness ==
    /\ pc = "done"
    /\ path = "channel"
    /\ Len(playlist_items) >= 2
    /\ Len(calls) = 3 + Len(playlist_items)
    /\ calls[1].op = "search"

====
